---- MODULE Spec2Model ----
(***************************************************************************)
(* Model of scripts/multipart.py: MultipartUploadClient.upload_file, the   *)
(* multipart upload flow (stat, session creation, split, per-batch refill, *)
(* concurrent chunk PUTs in a thread pool, batch report, final status,     *)
(* asset lookup, cleanup).  The remote service and the object store are    *)
(* the environment: every response is a nondeterministic choice.           *)
(***************************************************************************)
EXTENDS Integers, Sequences, FiniteSets, TLC

(* ---------------- bounds of the model ---------------- *)
\* largest file size (bytes) of the exhaustively explored small inputs
MaxFileSize == 3
\* largest chunk_size the service assigns to the small inputs
MaxChunkSize == 2
\* number of failing or malformed responses the environment may give in one run
MaxFaults == 1
\* largest file size and chunk_size of the inputs split_file is explored on alone
MaxSplitSize == 25
MaxSplitChunk == 10
\* largest number of chunks of the files termination is explored on
MaxLiveSize == 2

(* ---------------- program constants ---------------- *)
\* min(len(batch_chunk_files), 5)
WorkerCap == 5
\* page = (chunk_index - 1) // 10 + 1 ; get_additional_urls(..., limit = 10)
PageSize == 10

Min(a, b) == IF a < b THEN a ELSE b

Range(s) == {s[k] : k \in 1..Len(s)}

\* Python's None, as returned by dict.get for an absent key
NoneVal == "<None>"

\* the asset URL the service hands out
AssetUrl == "https://asset"

\* truthiness of a Python value that is None or a string
Truthy(v) == v # NoneVal /\ v # ""

(* ---------------- the local file ---------------- *)
\* the bytes of a regular file of the given size: byte k is tagged with k
FileBytes(size) == [k \in 1..size |-> k]

\* a faulty variant of Read: a short read at the end of the file is dropped
ReadFullOnly(data, pos, chunk_size) ==
    IF pos + chunk_size <= Len(data)
    THEN SubSeq(data, pos + 1, pos + chunk_size)
    ELSE <<>>

\* a faulty variant of Read: every read after the first starts one byte late
ReadShifted(data, pos, chunk_size) ==
    IF pos = 0
    THEN SubSeq(data, 1, Min(chunk_size, Len(data)))
    ELSE SubSeq(data, pos + 2, Min(pos + 1 + chunk_size, Len(data)))

\* f.read(chunk_size) at offset pos: at most chunk_size bytes, b'' at the end
Read(data, pos, chunk_size) ==
    SubSeq(data, pos + 1, Min(pos + chunk_size, Len(data)))

\* the while-loop of split_file: (path, data) of every chunk file written
RECURSIVE ReadLoop(_, _, _, _, _)
ReadLoop(data, pos, chunk_size, chunk_num, written) ==
    LET chunk_data == Read(data, pos, chunk_size)
    IN  IF chunk_data = <<>>
        THEN written
        ELSE ReadLoop(data, pos + Len(chunk_data), chunk_size, chunk_num + 1,
                      Append(written, [path |-> chunk_num, data |-> chunk_data]))

split_file(data, chunk_size) == ReadLoop(data, 0, chunk_size, 1, <<>>)

(* ---------------- batches ---------------- *)
\* a faulty variant of BatchEnd: the last batch is not cut at total_chunks
BatchEndUnclamped(batch_start, batch_size, total_chunks) == batch_start + batch_size

\* batch_end = min(batch_start + batch_size, total_chunks)
BatchEnd(batch_start, batch_size, total_chunks) ==
    Min(batch_start + batch_size, total_chunks)

\* a faulty variant of BatchIndices: every batch starts again at chunk 1
BatchIndicesFromOne(batch_start, batch_end) == 1..batch_end

\* batch_indices = list(range(batch_start + 1, batch_end + 1))
BatchIndices(batch_start, batch_end) == (batch_start + 1)..batch_end

\* a faulty variant of max_workers: no cap on the pool
MaxWorkersUncapped(batch_len) == batch_len

\* max_workers = min(len(batch_chunk_files), 5)
max_workers(batch_len) == Min(batch_len, WorkerCap)

\* get_additional_urls(upload_id, page=page): limit keeps its default
DefaultLimit == 10

\* a faulty variant of PageOf: pages counted from 0
PageOfZeroBased(chunk_index) == (chunk_index - 1) \div PageSize

\* page = (chunk_index - 1) // 10 + 1
PageOf(chunk_index) == ((chunk_index - 1) \div PageSize) + 1

\* the ascending list of the elements of a set of integers
RECURSIVE SortedSeq(_)
SortedSeq(S) ==
    IF S = {} THEN <<>>
    ELSE LET m == CHOOSE x \in S : \A y \in S : x <= y
         IN  <<m>> \o SortedSeq(S \ {m})

(* ---------------- ETag ---------------- *)
Quote == "\""

\* str.strip('"'): drop the leading and trailing quote characters
RECURSIVE LStrip(_)
LStrip(s) == IF s # <<>> /\ Head(s) = Quote THEN LStrip(Tail(s)) ELSE s
RECURSIVE RStrip(_)
RStrip(s) ==
    IF s # <<>> /\ s[Len(s)] = Quote THEN RStrip(SubSeq(s, 1, Len(s) - 1)) ELSE s
Strip(s) == RStrip(LStrip(s))

\* the entity tag the object store computes for chunk file `path` PUT to `url`
Tag(url, path) == <<ToString(url.ci), ToString(path)>>

\* the ETag header of a 2xx PUT response: the quoted tag as the object store
\* sends it, or no header at all
QuotedETag(url, path) ==
    [present |-> TRUE, value |-> <<Quote>> \o Tag(url, path) \o <<Quote>>]
NoETag == [present |-> FALSE, value |-> <<>>]

\* response.headers.get('ETag', '').strip('"')
ETagOf(header) == Strip(IF header.present THEN header.value ELSE <<>>)

(* ---------------- state ---------------- *)
VARIABLES
    pc,               \* position of the controlling thread in upload_file
    cfg,              \* the call's inputs (the source path's state, batch_size)
                      \* and the service's policy (the chunk_size it assigns,
                      \* the number of URLs it puts in the session response)
    chunk_dir,        \* whether '<stem>_chunks' exists on disk
    disk,             \* the chunk files on disk: path -> bytes
    upload_session,   \* the session-creation response
    chunk_files,      \* local chunk_files: unbound until split_file returned
    current_urls,     \* the presigned-URL cache: chunk_index -> url
    batch_start,      \* loop variable of the batch loop
    missing_urls,     \* the indices the refill loop has still to visit
    fut,              \* the batch's futures: chunk_index -> state, chunk file,
                      \* url, the PUT's ETag header, the etag returned
    collected,        \* the futures as_completed has already yielded
    completed_chunks, \* the proofs collected for the current batch
    pending,          \* an exception is propagating out of the pool's with-block
    result,           \* what upload_file gives its caller
    log,              \* history: the requests sent, in order
    faults            \* history: deviating responses given so far

vars == <<pc, cfg, chunk_dir, disk, upload_session, chunk_files, current_urls,
          batch_start, missing_urls, fut, collected, completed_chunks, pending,
          result, log, faults>>

\* the inputs explored: every small regular file, a missing path, a directory,
\* one file with a batch wider than the worker pool, one file whose chunk
\* indices run into the second page of presigned URLs
Configs ==
    { [kind |-> "file", size |-> n, chunk_size |-> c, batch_size |-> b,
       first_page |-> f] :
        n \in 0..MaxFileSize, c \in 1..MaxChunkSize, b \in (-1)..(MaxFileSize + 1),
        f \in {0, PageSize} }
    \cup { [kind |-> k, size |-> 1, chunk_size |-> 1, batch_size |-> 1,
            first_page |-> PageSize] : k \in {"missing", "dir"} }
    \cup { [kind |-> "file", size |-> WorkerCap + 1, chunk_size |-> 1,
            batch_size |-> WorkerCap + 1, first_page |-> PageSize] }
    \cup { [kind |-> "file", size |-> PageSize + 2, chunk_size |-> 1,
            batch_size |-> 2, first_page |-> PageSize] }

\* the --api-key the client is constructed with
ApiKey == "tlk_key"

\* self.session.headers.update({'x-api-key': api_key}) `if api_key`
SessionHeaders(api_key) ==
    IF Truthy(api_key) THEN {<<"x-api-key", api_key>>} ELSE {}

\* a faulty variant of RequestHeaders: the chunk PUT goes through the session
RequestHeadersOfSession(op) ==
    IF op = "put"
    THEN SessionHeaders(ApiKey) \cup {<<"Content-Type", "application/octet-stream">>}
    ELSE SessionHeaders(ApiKey)

\* the headers of a request: the API calls go through self.session, the
\* chunk PUT is a bare requests.put with its own headers (lines 101-105)
RequestHeaders(op) ==
    IF op = "put"
    THEN {<<"Content-Type", "application/octet-stream">>}
    ELSE SessionHeaders(ApiKey)

NoResult == [kind |-> "none", val |-> ""]
\* a logged request: its kind, its argument (total_size, page, chunk index,
\* batch_start), for a report the proofs sent and their number, and what the
\* answer carried ("error" for a failure; a PUT is logged when it starts), and
\* the request's headers; dup is the duplicate_chunks count of a report answer
Entry(op, arg, sent, resp) ==
    [op |-> op, arg |-> arg, proofs |-> Range(sent), n |-> Len(sent), resp |-> resp,
     dup |-> 0, headers |-> RequestHeaders(op)]

Init ==
    /\ pc = "stat"
    /\ cfg \in Configs
    /\ chunk_dir = FALSE
    /\ disk = <<>>
    /\ upload_session = [created |-> FALSE, chunk_size |-> 0, total_chunks |-> 0,
                         upload_urls |-> <<>>]
    /\ chunk_files = [bound |-> FALSE, files |-> <<>>]
    /\ current_urls = <<>>
    /\ batch_start = 0
    /\ missing_urls = <<>>
    /\ fut = <<>>
    /\ collected = {}
    /\ completed_chunks = <<>>
    /\ pending = FALSE
    /\ result = NoResult
    /\ log = <<>>
    /\ faults = 0

(* ---------------- derived values ---------------- *)
total_chunks == Len(chunk_files.files)
batch_end == BatchEnd(batch_start, cfg.batch_size, total_chunks)
batch_indices == BatchIndices(batch_start, batch_end)
\* len(chunk_files[batch_start:batch_end])
batch_len == IF batch_end > batch_start THEN batch_end - batch_start ELSE 0
Running == {i \in DOMAIN fut : fut[i].state = "running"}
Queued == {i \in DOMAIN fut : fut[i].state = "queued"}
\* a faulty variant of Finished: as_completed also yields futures still running
FinishedOrRunning ==
    {i \in DOMAIN fut : fut[i].state \in {"returned", "raised", "running"}}

Finished == {i \in DOMAIN fut : fut[i].state \in {"returned", "raised"}}
MayFault == faults < MaxFaults

\* an exception leaves the try block: the finally clause runs next
Raise(error) ==
    /\ result' = [kind |-> "error", val |-> error]
    /\ pc' = "cleanup"

(* ---------------- the controlling thread ---------------- *)
\* total_size = file_path.stat().st_size
Stat ==
    /\ pc = "stat"
    /\ IF cfg.kind = "missing"
       THEN Raise("FileNotFoundError")
       ELSE pc' = "create" /\ UNCHANGED result
    /\ UNCHANGED <<cfg, chunk_dir, disk, upload_session, chunk_files, current_urls,
                   batch_start, missing_urls, fut, collected, completed_chunks,
                   pending, log, faults>>

\* what the service answers to a session creation for total_size bytes
SessionResponse(total_size, chunk_size, first_page) ==
    LET n == (total_size + chunk_size - 1) \div chunk_size
    IN  [created |-> TRUE, chunk_size |-> chunk_size, total_chunks |-> n,
         upload_urls |-> [i \in 1..Min(n, first_page) |-> [ci |-> i, gen |-> 0]]]

\* a faulty variant of CreateSession: raise_for_status is missing, the body of
\* a failed response is used as the session
CreateSessionUnchecked ==
    /\ pc = "create"
    /\ \/ /\ MayFault
          /\ faults' = faults + 1
          /\ log' = Append(log, Entry("create", cfg.size, <<>>, "error"))
       \/ /\ log' = Append(log, Entry("create", cfg.size, <<>>, "ok"))
          /\ UNCHANGED faults
    /\ upload_session' = SessionResponse(cfg.size, cfg.chunk_size, cfg.first_page)
    /\ pc' = "split"
    /\ UNCHANGED <<cfg, chunk_dir, disk, chunk_files, current_urls, batch_start,
                   missing_urls, fut, collected, completed_chunks, pending, result>>

\* create_upload_session, then current_urls is not yet built (that is after split)
CreateSession ==
    /\ pc = "create"
    /\ \/ /\ MayFault
          /\ faults' = faults + 1
          /\ log' = Append(log, Entry("create", cfg.size, <<>>, "error"))
          /\ Raise("HTTPError")
          /\ UNCHANGED upload_session
       \/ /\ log' = Append(log, Entry("create", cfg.size, <<>>, "ok"))
          /\ upload_session' =
                SessionResponse(cfg.size, cfg.chunk_size, cfg.first_page)
          /\ pc' = "split"
          /\ UNCHANGED <<result, faults>>
    /\ UNCHANGED <<cfg, chunk_dir, disk, chunk_files, current_urls, batch_start,
                   missing_urls, fut, collected, completed_chunks, pending>>

\* a faulty variant of SessionChunkSize: a size chosen by the client
GuessedChunkSize == MaxChunkSize + 1

\* chunk_size = upload_session['chunk_size']
SessionChunkSize == upload_session.chunk_size

\* split_file with the session's chunk_size, then the cache is built from the
\* session's upload_urls (lines 210-214)
SplitFile ==
    /\ pc = "split"
    /\ IF cfg.kind = "missing"
       THEN /\ Raise("FileNotFoundError")
            /\ UNCHANGED <<chunk_dir, disk, chunk_files, current_urls>>
       ELSE IF cfg.kind = "dir"
       THEN \* mkdir succeeded, open(file_path, 'rb') raises
            /\ chunk_dir' = TRUE
            /\ Raise("IsADirectoryError")
            /\ UNCHANGED <<disk, chunk_files, current_urls>>
       ELSE LET written == split_file(FileBytes(cfg.size), SessionChunkSize)
            IN  /\ chunk_dir' = TRUE
                /\ disk' = [p \in 1..Len(written) |-> written[p].data]
                /\ chunk_files' = [bound |-> TRUE,
                                   files |-> [p \in 1..Len(written) |-> written[p].path]]
                /\ current_urls' = [i \in {u.ci : u \in Range(upload_session.upload_urls)}
                                      |-> CHOOSE u \in Range(upload_session.upload_urls) : u.ci = i]
                /\ pc' = "loop"
                /\ UNCHANGED result
    /\ UNCHANGED <<cfg, upload_session, batch_start, missing_urls, fut, collected,
                   completed_chunks, pending, log, faults>>

\* range(0, total_chunks, batch_size) with batch_size = 0 raises ValueError
RangeError ==
    /\ pc = "loop"
    /\ cfg.batch_size = 0
    /\ Raise("ValueError")
    /\ UNCHANGED <<cfg, chunk_dir, disk, upload_session, chunk_files, current_urls,
                   batch_start, missing_urls, fut, collected, completed_chunks,
                   pending, log, faults>>

\* the loop yields the next batch_start: lines 218-226
BeginBatch ==
    /\ pc = "loop"
    /\ cfg.batch_size > 0
    /\ batch_start < total_chunks
    /\ missing_urls' = SortedSeq({idx \in batch_indices : idx \notin DOMAIN current_urls})
    /\ pc' = "refill"
    /\ UNCHANGED <<cfg, chunk_dir, disk, upload_session, chunk_files, current_urls,
                   batch_start, fut, collected, completed_chunks, pending, result,
                   log, faults>>

\* the range is exhausted (or empty, for a negative batch_size): line 282
LoopExhausted ==
    /\ pc = "loop"
    /\ \/ cfg.batch_size < 0
       \/ cfg.batch_size > 0 /\ batch_start >= total_chunks
    /\ pc' = "status"
    /\ UNCHANGED <<cfg, chunk_dir, disk, upload_session, chunk_files, current_urls,
                   batch_start, missing_urls, fut, collected, completed_chunks,
                   pending, result, log, faults>>

\* what the service answers to a request for page `page` of `limit` URLs
PageResponse(page, limit, gen) ==
    LET lo == (page - 1) * limit + 1
        hi == Min(page * limit, upload_session.total_chunks)
    IN  [k \in 1..(IF hi >= lo THEN hi - lo + 1 ELSE 0) |->
            [ci |-> lo + k - 1, gen |-> gen]]

\* a faulty variant of Merge: an index already cached keeps its old url
MergeKeepsCached(cache, urls) ==
    [i \in DOMAIN cache \cup {u.ci : u \in Range(urls)} |->
        IF i \in DOMAIN cache
        THEN cache[i]
        ELSE CHOOSE u \in Range(urls) : u.ci = i]

\* current_urls[url_info['chunk_index']] = url_info['url'] for every url_info
Merge(cache, urls) ==
    [i \in DOMAIN cache \cup {u.ci : u \in Range(urls)} |->
        IF \E k \in 1..Len(urls) : urls[k].ci = i
        THEN LET last == CHOOSE k \in 1..Len(urls) :
                            /\ urls[k].ci = i
                            /\ \A j \in 1..Len(urls) : urls[j].ci = i => j <= k
             IN  urls[last]
        ELSE cache[i]]

NumRefills == Cardinality({k \in 1..Len(log) : log[k].op = "refill"})

\* one iteration of `for chunk_index in missing_urls`: lines 230-234
Refill ==
    /\ pc = "refill"
    /\ missing_urls # <<>>
    /\ LET chunk_index == Head(missing_urls)
           page == PageOf(chunk_index)
       IN  \/ /\ MayFault
              /\ faults' = faults + 1
              /\ log' = Append(log, Entry("refill", page, <<>>, "error"))
              /\ Raise("HTTPError")
              /\ UNCHANGED <<current_urls, missing_urls>>
           \/ /\ MayFault
              /\ faults' = faults + 1
              /\ log' = Append(log, Entry("refill", page, <<>>, "empty"))
              /\ missing_urls' = Tail(missing_urls)
              /\ UNCHANGED <<current_urls, pc, result>>
           \/ /\ log' = Append(log, Entry("refill", page, <<>>, "ok"))
              /\ current_urls' =
                    Merge(current_urls, PageResponse(page, DefaultLimit, NumRefills + 1))
              /\ missing_urls' = Tail(missing_urls)
              /\ UNCHANGED <<pc, result, faults>>
    /\ UNCHANGED <<cfg, chunk_dir, disk, upload_session, chunk_files, batch_start,
                   fut, collected, completed_chunks, pending>>

\* a faulty variant of Verify: the check of lines 237-239 is missing
VerifySkipped ==
    /\ pc = "refill"
    /\ missing_urls = <<>>
    /\ completed_chunks' = <<>>
    /\ fut' = <<>>
    /\ collected' = {}
    /\ pc' = "submit"
    /\ UNCHANGED <<cfg, chunk_dir, disk, upload_session, chunk_files, current_urls,
                   batch_start, missing_urls, pending, result, log, faults>>

\* lines 236-243: every index of the batch must be cached
Verify ==
    /\ pc = "refill"
    /\ missing_urls = <<>>
    /\ IF \E chunk_index \in batch_indices : chunk_index \notin DOMAIN current_urls
       THEN /\ Raise("No presigned URL available")
            /\ UNCHANGED <<fut, collected, completed_chunks>>
       ELSE /\ completed_chunks' = <<>>
            /\ fut' = <<>>
            /\ collected' = {}
            /\ pc' = "submit"
            /\ UNCHANGED result
    /\ UNCHANGED <<cfg, chunk_dir, disk, upload_session, chunk_files, current_urls,
                   batch_start, missing_urls, pending, log, faults>>

\* a faulty variant of Submit: a fresh page of URLs is fetched for every chunk as it
\* is submitted
SubmitLazyRefill ==
    /\ pc = "submit"
    /\ LET chunk_index == CHOOSE i \in batch_indices \ DOMAIN fut :
                              \A j \in batch_indices \ DOMAIN fut : i <= j
           last == (batch_indices \ DOMAIN fut) = {chunk_index}
           fresh == Merge(current_urls,
                          PageResponse(PageOf(chunk_index), PageSize, NumRefills + 1))
       IN  /\ current_urls' = fresh
           /\ log' = Append(log, Entry("refill", PageOf(chunk_index), <<>>, "ok"))
           /\ fut' = [i \in DOMAIN fut \cup {chunk_index} |->
                        IF i = chunk_index
                        THEN [state |-> "queued",
                              chunk_file |-> chunk_files.files[chunk_index],
                              url |-> fresh[chunk_index],
                              header |-> NoETag,
                              etag |-> <<>>]
                        ELSE fut[i]]
           /\ pc' = IF last THEN "collect" ELSE "submit"
    /\ UNCHANGED <<cfg, chunk_dir, disk, upload_session, chunk_files, batch_start,
                   missing_urls, collected, completed_chunks, pending, result,
                   faults>>

\* one iteration of the submit loop: lines 248-252
Submit ==
    /\ pc = "submit"
    /\ LET chunk_index == CHOOSE i \in batch_indices \ DOMAIN fut :
                              \A j \in batch_indices \ DOMAIN fut : i <= j
           last == (batch_indices \ DOMAIN fut) = {chunk_index}
       IN  IF chunk_index \notin DOMAIN current_urls
           THEN \* KeyError inside the with-block
                /\ pending' = TRUE
                /\ pc' = "pool_exit"
                /\ UNCHANGED fut
           ELSE /\ fut' = [i \in DOMAIN fut \cup {chunk_index} |->
                             IF i = chunk_index
                             THEN [state |-> "queued",
                                   chunk_file |-> chunk_files.files[chunk_index],
                                   url |-> current_urls[chunk_index],
                                   header |-> NoETag,
                                   etag |-> <<>>]
                             ELSE fut[i]]
                /\ pc' = IF last THEN "collect" ELSE "submit"
                /\ UNCHANGED pending
    /\ UNCHANGED <<cfg, chunk_dir, disk, upload_session, chunk_files, current_urls,
                   batch_start, missing_urls, collected, completed_chunks, result,
                   log, faults>>

\* a faulty variant of ProofEntry: results are numbered in the order they
\* complete, not by the future they belong to
ProofEntryInCompletionOrder(i) ==
    [chunk_index |-> batch_start + Len(completed_chunks) + 1,
     proof |-> fut[i].etag,
     proof_type |-> "etag",
     chunk_size |-> Len(disk[fut[i].chunk_file])]

\* the proof entry appended for future i: lines 258-265
ProofEntry(i) ==
    [chunk_index |-> i,
     proof |-> fut[i].etag,
     proof_type |-> "etag",
     chunk_size |-> Len(disk[fut[i].chunk_file])]

\* a faulty variant of Collect: the `raise` of line 269 is missing, a failed chunk is
\* only printed
CollectSwallowsFailure ==
    /\ pc = "collect"
    /\ \E i \in Finished \ collected :
          /\ collected' = collected \cup {i}
          /\ completed_chunks' = IF fut[i].state = "raised"
                                 THEN completed_chunks
                                 ELSE Append(completed_chunks, ProofEntry(i))
          /\ pc' = IF collected' = DOMAIN fut THEN "pool_exit" ELSE "collect"
    /\ UNCHANGED <<cfg, chunk_dir, disk, upload_session, chunk_files, current_urls,
                   batch_start, missing_urls, fut, pending, result, log, faults>>

\* a faulty variant of Collect: the loop is left after the first future that completed
CollectFirstOnly ==
    /\ pc = "collect"
    /\ \E i \in Finished \ collected :
          /\ collected' = collected \cup {i}
          /\ IF fut[i].state = "raised"
             THEN /\ pending' = TRUE
                  /\ UNCHANGED completed_chunks
             ELSE /\ completed_chunks' = Append(completed_chunks, ProofEntry(i))
                  /\ UNCHANGED pending
          /\ pc' = "pool_exit"
    /\ UNCHANGED <<cfg, chunk_dir, disk, upload_session, chunk_files, current_urls,
                   batch_start, missing_urls, fut, result, log, faults>>

\* one iteration of `for future in as_completed(...)`: lines 255-269
Collect ==
    /\ pc = "collect"
    /\ \E i \in Finished \ collected :
          /\ collected' = collected \cup {i}
          /\ IF fut[i].state = "raised"
             THEN /\ pending' = TRUE
                  /\ pc' = "pool_exit"
                  /\ UNCHANGED completed_chunks
             ELSE /\ completed_chunks' = Append(completed_chunks, ProofEntry(i))
                  /\ pc' = IF collected' = DOMAIN fut THEN "pool_exit" ELSE "collect"
                  /\ UNCHANGED pending
    /\ UNCHANGED <<cfg, chunk_dir, disk, upload_session, chunk_files, current_urls,
                   batch_start, missing_urls, fut, result, log, faults>>

\* a faulty variant of PoolExit: the pool is shut down without waiting
PoolExitNoWait ==
    /\ pc = "pool_exit"
    /\ IF pending
       THEN Raise("chunk upload failed")
       ELSE pc' = "report" /\ UNCHANGED result
    /\ UNCHANGED <<cfg, chunk_dir, disk, upload_session, chunk_files, current_urls,
                   batch_start, missing_urls, fut, collected, completed_chunks,
                   pending, log, faults>>

\* leaving the with-block: executor.shutdown(wait=True)
PoolExit ==
    /\ pc = "pool_exit"
    /\ Finished = DOMAIN fut
    /\ IF pending
       THEN Raise("chunk upload failed")
       ELSE pc' = "report" /\ UNCHANGED result
    /\ UNCHANGED <<cfg, chunk_dir, disk, upload_session, chunk_files, current_urls,
                   batch_start, missing_urls, fut, collected, completed_chunks,
                   pending, log, faults>>

\* the url field of a report response: absent, or the asset URL
ReportUrls == {NoneVal, AssetUrl}

\* the answers the service may give to a report of n proofs: the url field
\* absent, the asset URL or (unusual) empty, and the n chunks counted as
\* newly processed or (unusual, for a fresh session) all as duplicates
ReportResponses(n) ==
    { [url |-> url, processed_chunks |-> n - d, duplicate_chunks |-> d,
       total_completed |-> batch_end] :
        url \in ReportUrls \cup (IF MayFault THEN {""} ELSE {}),
        d \in {0} \cup (IF MayFault THEN {n} ELSE {}) }

\* an answer that draws on the budget of unusual answers
Unusual(response) == response.url = "" \/ response.duplicate_chunks > 0

\* the log entry of an answered report
ReportEntry(arg, sent, response) ==
    [Entry("report", arg, sent, response.url) EXCEPT
        !.dup = response.duplicate_chunks]

\* a faulty variant of ReturnsEarly: the url is honoured on the last batch only
ReturnsEarlyOnLastBatch(response) ==
    Truthy(response.url) /\ batch_end >= total_chunks

\* a faulty variant of ReturnsEarly: a batch of duplicates ends the upload
ReturnsEarlyOnDuplicates(response) ==
    Truthy(response.url) \/ response.duplicate_chunks > 0

\* `if result.get('url'): return result['url']`
ReturnsEarly(response) == Truthy(response.url)

\* a faulty variant of NextBatchStart: the loop advances by one chunk
NextBatchStartByOne(start, batch_size) == start + 1

\* a faulty variant of NextBatchStart: the loop does not advance
NextBatchStartStuck(start, batch_size) == start

\* the step of range(0, total_chunks, batch_size)
NextBatchStart(start, batch_size) == start + batch_size

\* a faulty variant of Report: a failed report is sent again
ReportRetries ==
    /\ pc = "report"
    /\ \/ /\ MayFault
          /\ faults' = faults + 1
          /\ log' = Append(log, Entry("report", batch_start, completed_chunks, "error"))
          /\ UNCHANGED <<pc, result, batch_start>>
       \/ \E response \in ReportResponses(Len(completed_chunks)) :
          /\ faults' = IF Unusual(response) THEN faults + 1 ELSE faults
          /\ log' = Append(log, ReportEntry(batch_start, completed_chunks, response))
          /\ IF ReturnsEarly(response)
             THEN /\ result' = [kind |-> "url", val |-> response.url]
                  /\ pc' = "cleanup"
                  /\ UNCHANGED batch_start
             ELSE /\ batch_start' = NextBatchStart(batch_start, cfg.batch_size)
                  /\ pc' = "loop"
                  /\ UNCHANGED result
    /\ UNCHANGED <<cfg, chunk_dir, disk, upload_session, chunk_files, current_urls,
                   missing_urls, fut, collected, completed_chunks, pending>>

\* report_completed_chunks and lines 275-280
Report ==
    /\ pc = "report"
    /\ \/ /\ MayFault
          /\ faults' = faults + 1
          /\ log' = Append(log, Entry("report", batch_start, completed_chunks, "error"))
          /\ Raise("HTTPError")
          /\ UNCHANGED batch_start
       \/ \E response \in ReportResponses(Len(completed_chunks)) :
          /\ faults' = IF Unusual(response) THEN faults + 1 ELSE faults
          /\ log' = Append(log, ReportEntry(batch_start, completed_chunks, response))
          /\ IF ReturnsEarly(response)
             THEN /\ result' = [kind |-> "url", val |-> response.url]
                  /\ pc' = "cleanup"
                  /\ UNCHANGED batch_start
             ELSE /\ batch_start' = NextBatchStart(batch_start, cfg.batch_size)
                  /\ pc' = "loop"
                  /\ UNCHANGED result
    /\ UNCHANGED <<cfg, chunk_dir, disk, upload_session, chunk_files, current_urls,
                   missing_urls, fut, collected, completed_chunks, pending>>

\* a faulty variant of Status: the asset is looked up whatever the status is
StatusNotChecked ==
    /\ pc = "status"
    /\ \/ /\ MayFault
          /\ faults' = faults + 1
          /\ log' = Append(log, Entry("status", 0, <<>>, "error"))
          /\ Raise("HTTPError")
       \/ \E status \in {"completed", "uploading"} :
          /\ log' = Append(log, Entry("status", 0, <<>>, status))
          /\ pc' = "asset"
          /\ UNCHANGED <<result, faults>>
    /\ UNCHANGED <<cfg, chunk_dir, disk, upload_session, chunk_files, current_urls,
                   batch_start, missing_urls, fut, collected, completed_chunks,
                   pending>>

\* get_upload_status and lines 284-294
Status ==
    /\ pc = "status"
    /\ \/ /\ MayFault
          /\ faults' = faults + 1
          /\ log' = Append(log, Entry("status", 0, <<>>, "error"))
          /\ Raise("HTTPError")
       \/ \E status \in {"completed", "uploading"} :
          /\ log' = Append(log, Entry("status", 0, <<>>, status))
          /\ IF status = "completed"
             THEN pc' = "asset" /\ UNCHANGED result
             ELSE Raise("Upload not completed")
          /\ UNCHANGED faults
    /\ UNCHANGED <<cfg, chunk_dir, disk, upload_session, chunk_files, current_urls,
                   batch_start, missing_urls, fut, collected, completed_chunks,
                   pending>>

\* get_asset_url: result.get('url', '')
Asset ==
    /\ pc = "asset"
    /\ \/ /\ MayFault
          /\ faults' = faults + 1
          /\ log' = Append(log, Entry("asset", 0, <<>>, "error"))
          /\ Raise("HTTPError")
       \/ /\ MayFault
          /\ faults' = faults + 1
          /\ log' = Append(log, Entry("asset", 0, <<>>, NoneVal))
          /\ result' = [kind |-> "url", val |-> ""]
          /\ pc' = "cleanup"
       \/ /\ log' = Append(log, Entry("asset", 0, <<>>, AssetUrl))
          /\ result' = [kind |-> "url", val |-> AssetUrl]
          /\ pc' = "cleanup"
          /\ UNCHANGED faults
    /\ UNCHANGED <<cfg, chunk_dir, disk, upload_session, chunk_files, current_urls,
                   batch_start, missing_urls, fut, collected, completed_chunks,
                   pending>>

\* the chunk files whose os.remove may raise OSError
StuckChoices ==
    {{}} \cup (IF MayFault THEN {{p} : p \in Range(chunk_files.files)} ELSE {})

\* cleanup_chunks(chunk_files): remove every file, then rmdir if the list is
\* not empty; OSError is swallowed
cleanup_chunks(stuck) ==
    /\ disk' = [p \in DOMAIN disk \cap stuck |-> disk[p]]
    /\ chunk_dir' = IF chunk_files.files # <<>> /\ DOMAIN disk \cap stuck = {}
                    THEN FALSE
                    ELSE chunk_dir

\* a faulty variant of Cleanup: the OSError of a failed removal is not
\* swallowed and replaces the outcome
CleanupPropagates ==
    /\ pc = "cleanup"
    /\ IF chunk_files.bound
       THEN \E stuck \in StuckChoices :
               /\ cleanup_chunks(stuck)
               /\ faults' = IF stuck = {} THEN faults ELSE faults + 1
               /\ result' = IF stuck = {} THEN result
                            ELSE [kind |-> "error", val |-> "OSError"]
       ELSE UNCHANGED <<disk, chunk_dir, faults, result>>
    /\ pc' = "done"
    /\ UNCHANGED <<cfg, upload_session, chunk_files, current_urls, batch_start,
                   missing_urls, fut, collected, completed_chunks, pending, log>>

\* the finally clause: lines 296-299
Cleanup ==
    /\ pc = "cleanup"
    /\ IF chunk_files.bound
       THEN \E stuck \in StuckChoices :
               /\ cleanup_chunks(stuck)
               /\ faults' = IF stuck = {} THEN faults ELSE faults + 1
       ELSE UNCHANGED <<disk, chunk_dir, faults>>
    /\ pc' = "done"
    /\ UNCHANGED <<cfg, upload_session, chunk_files, current_urls, batch_start,
                   missing_urls, fut, collected, completed_chunks, pending, result,
                   log>>

(* ---------------- the pool's worker threads ---------------- *)
\* a worker takes the oldest queued work item and starts upload_chunk_to_s3
StartUpload ==
    /\ Queued # {}
    /\ Cardinality(Running) < max_workers(batch_len)
    /\ LET i == CHOOSE q \in Queued : \A r \in Queued : q <= r
       IN  /\ fut' = [fut EXCEPT ![i].state = "running"]
           /\ log' = Append(log, Entry("put", i, <<>>, ""))
    /\ UNCHANGED <<pc, cfg, chunk_dir, disk, upload_session, chunk_files,
                   current_urls, batch_start, missing_urls, collected,
                   completed_chunks, pending, result, faults>>

\* the PUT returns: raise_for_status, then the ETag is extracted (lines 107-113)
FinishUpload ==
    \E i \in Running :
      /\ \/ /\ MayFault
            /\ faults' = faults + 1
            /\ fut' = [fut EXCEPT ![i].state = "raised"]
         \/ /\ MayFault
            /\ faults' = faults + 1
            /\ fut' = [fut EXCEPT ![i].state = "returned", ![i].header = NoETag,
                                  ![i].etag = ETagOf(NoETag)]
         \/ /\ LET header == QuotedETag(fut[i].url, fut[i].chunk_file)
               IN  fut' = [fut EXCEPT ![i].state = "returned", ![i].header = header,
                                      ![i].etag = ETagOf(header)]
            /\ UNCHANGED faults
      /\ UNCHANGED <<pc, cfg, chunk_dir, disk, upload_session, chunk_files,
                     current_urls, batch_start, missing_urls, collected,
                     completed_chunks, pending, result, log>>

Next ==
    \/ Stat
    \/ CreateSession
    \/ SplitFile
    \/ RangeError
    \/ BeginBatch
    \/ LoopExhausted
    \/ Refill
    \/ Verify
    \/ Submit
    \/ Collect
    \/ PoolExit
    \/ Report
    \/ Status
    \/ Asset
    \/ Cleanup
    \/ StartUpload
    \/ FinishUpload

Spec == Init /\ [][Next]_vars

(* ======================= properties ======================= *)
ReportPositions == {k \in 1..Len(log) : log[k].op = "report"}
NumReports == Cardinality(ReportPositions)
\* the chunk indices a logged report carries proofs for
Reported(k) == {e.chunk_index : e \in log[k].proofs}
\* a chunk PUT of the current batch has failed
PutFailed == \E i \in DOMAIN fut : fut[i].state = "raised"
\* chunk uploads submitted to the pool and not yet finished
InFlight == Running \cup Queued
\* the report answer carried a url
CarriesUrl(e) == e.op = "report" /\ e.resp \notin {"error", NoneVal, ""}
\* the batch_start of the batch chunk index i belongs to
BatchStartOf(i) == ((i - 1) \div cfg.batch_size) * cfg.batch_size
\* the position of the last report in the log, 0 if there is none
LastReport ==
    IF ReportPositions = {} THEN 0
    ELSE CHOOSE k \in ReportPositions : \A j \in ReportPositions : j <= k
\* refill requests for page p issued for the current batch
RefillsThisBatch(p) ==
    Cardinality({k \in (LastReport + 1)..Len(log) :
                    log[k].op = "refill" /\ log[k].arg = p})

\* C1: when upload_file has finished, with a URL or with an error at any step
\* and for every file size, the scratch chunk directory no longer exists.
C1_CleanupGuarantee == pc = "done" => ~chunk_dir

\* C2: once a chunk PUT of a batch has failed, no report is sent any more (so
\* none for that batch, not even for its chunks that succeeded), the batch
\* loop never advances to a later batch, and upload_file ends with an error.
C2_FailFast ==
    [][PutFailed =>
        /\ NumReports' = NumReports
        /\ batch_start' = batch_start
        /\ result'.kind # "url"
        /\ (pc' = "done" => result'.kind = "error")]_vars

\* C2 witness: upload_file has ended after a chunk PUT failed in a batch in
\* which another chunk's proof had been collected.
C2_Witness ==
    /\ pc = "done"
    /\ PutFailed
    /\ completed_chunks # <<>>
    /\ result.kind = "error"

\* C3: a report answer that carries a (non-empty) url is the last request of
\* the run: upload_file returns that url, and nothing is uploaded, refilled,
\* reported or polled after it, even when batches remain.
C3_EarlyCompletion ==
    \A k \in 1..Len(log) :
        CarriesUrl(log[k]) =>
            /\ k = Len(log)
            /\ result = [kind |-> "url", val |-> log[k].resp]
            /\ pc \in {"cleanup", "done"}
            /\ InFlight = {}

\* C3 witness: upload_file returned the url of a report although batches remained.
C3_Witness ==
    /\ pc = "done"
    /\ log # <<>>
    /\ CarriesUrl(log[Len(log)])
    /\ batch_end < total_chunks
    /\ result.kind = "url"

\* C4: reports are sent in strictly ascending chunk-index order, the report
\* of a batch is preceded by the answered report of the batch before it, and
\* every chunk PUT comes after the answered report of the batch before its
\* own and before any report of its own or a later batch.
C4_BatchOrdering ==
    \A q \in 1..Len(log) :
        /\ log[q].op = "report" =>
              /\ \A p \in 1..(q - 1) : log[p].op = "report" =>
                    /\ log[p].arg < log[q].arg
                    /\ log[p].resp # "error"
                    /\ \A i \in Reported(p), j \in Reported(q) : i < j
              /\ log[q].arg > 0 =>
                    \E p \in 1..(q - 1) :
                        /\ log[p].op = "report"
                        /\ log[p].arg = log[q].arg - cfg.batch_size
        /\ log[q].op = "put" =>
              /\ \A p \in 1..(q - 1) : log[p].op = "report" =>
                    /\ log[p].resp # "error"
                    /\ \A i \in Reported(p) : i < log[q].arg
              /\ BatchStartOf(log[q].arg) > 0 =>
                    \E p \in 1..(q - 1) :
                        /\ log[p].op = "report"
                        /\ log[p].arg = BatchStartOf(log[q].arg) - cfg.batch_size

\* C4 witness: a second batch has been uploaded and reported after the first.
C4_Witness ==
    \E p, q, r \in 1..Len(log) :
        /\ p < q /\ q < r
        /\ log[p].op = "report"
        /\ log[q].op = "put"
        /\ log[r].op = "report"

\* C5: a report is sent only when every chunk index of the batch has a
\* successfully finished upload and none is in flight, and every report sent
\* carries exactly one proof entry for each chunk index of its batch.
C5_ReportComplete ==
    /\ pc = "report" =>
          /\ InFlight = {}
          /\ \A i \in batch_indices : i \in DOMAIN fut /\ fut[i].state = "returned"
    /\ \A k \in ReportPositions :
          LET batch == BatchIndices(log[k].arg,
                                    BatchEnd(log[k].arg, cfg.batch_size, total_chunks))
          IN  /\ Reported(k) = batch
              /\ log[k].n = Cardinality(batch)

\* C5 witness: a batch was reported whose uploads completed out of index order.
C5_Witness ==
    /\ log # <<>>
    /\ log[Len(log)].op = "report"
    /\ Len(completed_chunks) >= 2
    /\ completed_chunks[1].chunk_index > completed_chunks[2].chunk_index

\* C6: the number of chunk uploads in flight never exceeds min(batch_size, 5)
\* nor the number of chunks of the current batch (for a negative batch_size no
\* batch is ever made and nothing is in flight).
C6_BoundedConcurrency ==
    cfg.batch_size >= 0 =>
        /\ Cardinality(Running) <= Min(cfg.batch_size, WorkerCap)
        /\ Cardinality(Running) <= batch_len

\* C6 witness: five uploads are in flight and a sixth chunk of the batch waits.
C6_Witness == Cardinality(Running) = WorkerCap /\ Queued # {}

\* C7: while a chunk upload is queued or in flight the URL cache is not
\* written and no refill request is issued.
C7_CacheFrozenInFlight ==
    [][InFlight # {} =>
        /\ current_urls' = current_urls
        /\ NumRefills' = NumRefills]_vars

\* C7 witness: an upload is in flight with a URL that a refill of this run
\* put into the cache, while another upload of the batch is in flight too.
C7_Witness ==
    /\ Cardinality(Running) >= 2
    /\ \E i \in Running : fut[i].url.gen > 0

\* C8: a chunk whose PUT was answered 2xx without an ETag header gets no
\* proof entry, is in no report, and upload_file ends with an error.
C8_MissingProofFails ==
    \A i \in DOMAIN fut :
        (fut[i].state = "returned" /\ ~fut[i].header.present) =>
            /\ \A k \in 1..Len(completed_chunks) : completed_chunks[k].chunk_index # i
            /\ \A k \in ReportPositions : i \notin Reported(k)
            /\ (pc = "done" => result.kind = "error")

\* C9: in a run where every response is regular, when the uploads of a batch
\* start, no page of URLs has been requested more than once for that batch.
C9_OneRefillPerPage ==
    (faults = 0 /\ pc = "submit") =>
        \A p \in {log[k].arg : k \in {j \in 1..Len(log) : log[j].op = "refill"}} :
            RefillsThisBatch(p) <= 1

\* the refill loop of the batch is over and an index of the batch is not cached
StillMissing ==
    /\ pc = "refill"
    /\ missing_urls = <<>>
    /\ \E i \in batch_indices : i \notin DOMAIN current_urls
\* upload_file failed because a presigned URL was not available
Exhausted == result = [kind |-> "error", val |-> "No presigned URL available"]
\* a PUT or a report of the current batch is in the log
BatchTraffic ==
    \E k \in 1..Len(log) :
        \/ log[k].op = "put" /\ log[k].arg \in batch_indices
        \/ log[k].op = "report" /\ log[k].arg = batch_start

\* C10: when an index of the batch is still uncached after the batch's
\* refills, nothing of that batch has been uploaded or reported, the next step
\* makes upload_file fail, and after that failure no request is sent.
C10_ExhaustionFails ==
    [][/\ StillMissing => (~BatchTraffic /\ Exhausted' /\ pc' = "cleanup")
       /\ Exhausted => (log' = log /\ Exhausted' /\ ~BatchTraffic')]_vars

\* C10 witness: upload_file ended with the missing-URL error after a refill.
C10_Witness ==
    /\ pc = "done"
    /\ Exhausted
    /\ RefillsThisBatch(PageOf(batch_start + 1)) > 0

OpPositions(op) == {k \in 1..Len(log) : log[k].op = op}

\* C11: the status endpoint is queried at most once, never after a report
\* that carried a url or after a failed request or chunk upload, and only
\* directly after the answered report of the last batch.
C11_StatusOnlyFallback ==
    /\ Cardinality(OpPositions("status")) <= 1
    /\ \A k \in OpPositions("status") :
          /\ k > 1
          /\ log[k - 1].op = "report"
          /\ log[k - 1].resp \notin {"error", AssetUrl}
          /\ \A j \in 1..(k - 1) : log[j].resp # "error" /\ ~CarriesUrl(log[j])
          /\ ~PutFailed

\* the status request and its answer, when one was made
StatusAnswer == {log[k].resp : k \in OpPositions("status")}
\* the asset request was answered with the asset's url
AssetAnswered == \E k \in OpPositions("asset") : log[k].resp = AssetUrl

\* C12: the asset endpoint is queried only after a status answer 'completed',
\* and then at most once; a finished run whose status was 'completed' made
\* exactly one asset GET and returns the url it carried; a run whose status
\* was anything else made none and failed with the upload-incomplete error.
C12_FallbackResolution ==
    /\ Cardinality(OpPositions("asset")) <= 1
    /\ \A k \in OpPositions("asset") :
          k > 1 /\ log[k - 1].op = "status" /\ log[k - 1].resp = "completed"
    /\ (pc \in {"cleanup", "done"} /\ "completed" \in StatusAnswer) =>
          /\ Cardinality(OpPositions("asset")) = 1
          /\ AssetAnswered => result = [kind |-> "url", val |-> AssetUrl]
    /\ "uploading" \in StatusAnswer =>
          /\ OpPositions("asset") = {}
          /\ pc \in {"cleanup", "done"}
          /\ result = [kind |-> "error", val |-> "Upload not completed"]

\* C12 witness: after a status 'completed' the asset url was returned, and
\* no report had carried a url.
C12_Witness ==
    /\ pc = "done"
    /\ "completed" \in StatusAnswer
    /\ AssetAnswered
    /\ NumReports > 0
    /\ result = [kind |-> "url", val |-> AssetUrl]

(* ---------------- split_file on its own ---------------- *)
\* regular files up to MaxSplitSize bytes, chunk sizes up to MaxSplitChunk
SplitConfigs ==
    { [kind |-> "file", size |-> n, chunk_size |-> c, batch_size |-> PageSize,
       first_page |-> PageSize] : n \in 0..MaxSplitSize, c \in 1..MaxSplitChunk }

\* upload_file just before line 210: the session has been created
SplitInit ==
    /\ pc = "split"
    /\ cfg \in SplitConfigs
    /\ chunk_dir = FALSE
    /\ disk = <<>>
    /\ upload_session = SessionResponse(cfg.size, cfg.chunk_size, cfg.first_page)
    /\ chunk_files = [bound |-> FALSE, files |-> <<>>]
    /\ current_urls = <<>>
    /\ batch_start = 0
    /\ missing_urls = <<>>
    /\ fut = <<>>
    /\ collected = {}
    /\ completed_chunks = <<>>
    /\ pending = FALSE
    /\ result = NoResult
    /\ log = <<Entry("create", cfg.size, <<>>, "ok")>>
    /\ faults = 0

SplitNext == SplitFile

SpecSplit == SplitInit /\ [][SplitNext]_vars

Ceil(n, c) == (n + c - 1) \div c

\* the chunk files read back and joined in the order of chunk_files
RECURSIVE Joined(_)
Joined(paths) ==
    IF paths = <<>> THEN <<>> ELSE disk[Head(paths)] \o Joined(Tail(paths))

\* C13: split_file makes ceil(N/C) chunk files numbered 1, 2, ... in
\* increasing order; every chunk but the last holds exactly C bytes and the
\* last holds N - (ceil(N/C) - 1) * C bytes.
C13_ChunkCountAndSizes ==
    chunk_files.bound =>
        LET n == cfg.size
            c == upload_session.chunk_size
            k == Len(chunk_files.files)
        IN  /\ k = Ceil(n, c)
            /\ \A p \in 1..k : chunk_files.files[p] = p
            /\ DOMAIN disk = 1..k
            /\ \A p \in 1..(k - 1) : Len(disk[p]) = c
            /\ k > 0 => Len(disk[k]) = n - (k - 1) * c

\* C13 witness: 25 bytes in chunks of 10 give three chunks of 10, 10 and 5
\* (the scenario of 25,000,000 bytes and 10,000,000-byte chunks, scaled).
C13_Witness ==
    /\ chunk_files.bound
    /\ cfg.size = 25
    /\ upload_session.chunk_size = 10
    /\ Len(chunk_files.files) = 3
    /\ <<Len(disk[1]), Len(disk[2]), Len(disk[3])>> = <<10, 10, 5>>

\* C14: the chunk files joined in index order are the bytes of the source
\* file: no gap, no overlap.
C14_RoundTrip ==
    chunk_files.bound => Joined(chunk_files.files) = FileBytes(cfg.size)

\* C14 witness: a file split into several chunks, the last one short.
C14_Witness ==
    /\ chunk_files.bound
    /\ Len(chunk_files.files) >= 3
    /\ Len(disk[Len(chunk_files.files)]) < upload_session.chunk_size
    /\ Joined(chunk_files.files) = FileBytes(cfg.size)

\* C15: the file is split with the chunk_size of the session-creation
\* response: nothing is written to the scratch directory before the session
\* exists, every chunk file holds at most that many bytes and every chunk
\* but the last exactly that many, and the session's chunk_size never
\* changes once it has been returned.
C15_SessionChunkSize ==
    /\ [](/\ (chunk_dir \/ disk # <<>> \/ chunk_files.bound) =>
                /\ upload_session.created
                /\ \E k \in 1..Len(log) : log[k].op = "create" /\ log[k].resp = "ok"
          /\ \A p \in DOMAIN disk :
                /\ Len(disk[p]) <= upload_session.chunk_size
                /\ p < total_chunks => Len(disk[p]) = upload_session.chunk_size)
    /\ [][upload_session.created =>
             upload_session'.chunk_size = upload_session.chunk_size]_vars

\* C15 witness: a file split into a full chunk and a short one, uploaded and
\* about to be reported.
C15_Witness ==
    /\ pc = "report"
    /\ upload_session.chunk_size = 2
    /\ total_chunks = 2
    /\ Len(disk[1]) = 2 /\ Len(disk[2]) = 1

\* the chunk indices of all PUTs started and of all proofs reported so far
DrivenIndices ==
    {log[k].arg : k \in OpPositions("put")}
        \cup UNION {Reported(k) : k \in ReportPositions}

BatchRange(s) == (s + 1)..Min(s + cfg.batch_size, total_chunks)

\* C17: for a positive batch_size B and T chunks the reports are those of the
\* batches [kB+1, min((k+1)B, T)] in order: the k-th report is the one of
\* batch_start (k-1)B and carries indices of that range only, no index is
\* reported twice, and when the loop has finished without failure and
\* without a url in a report there were ceil(T/B) reports, each carrying its
\* whole range, so every index of 1..T was reported exactly once.
C17_BatchPartition ==
    (cfg.batch_size > 0 /\ chunk_files.bound) =>
        /\ \A k \in ReportPositions :
              /\ log[k].arg = cfg.batch_size *
                                (Cardinality({j \in ReportPositions : j < k}))
              /\ log[k].arg < total_chunks
              /\ Reported(k) \subseteq BatchRange(log[k].arg)
              /\ Cardinality(BatchRange(log[k].arg)) <= cfg.batch_size
              /\ log[k].arg + cfg.batch_size < total_chunks =>
                    Cardinality(BatchRange(log[k].arg)) = cfg.batch_size
              /\ \A j \in ReportPositions : j < k => Reported(j) \cap Reported(k) = {}
        /\ pc \in {"status", "asset"} =>
              /\ NumReports = Ceil(total_chunks, cfg.batch_size)
              /\ \A k \in ReportPositions :
                    /\ Reported(k) = BatchRange(log[k].arg)
                    /\ log[k].n = Cardinality(BatchRange(log[k].arg))
              /\ UNION {Reported(k) : k \in ReportPositions} = 1..total_chunks

\* C17 witness: a batch size larger than the three chunks gives one batch
\* with indices 1..3 and one report (batch size 10 with 3 chunks, scaled).
C17_Witness ==
    /\ pc = "status"
    /\ total_chunks = 3
    /\ cfg.batch_size > total_chunks
    /\ NumReports = 1
    /\ \A k \in ReportPositions : Reported(k) = 1..3 /\ log[k].n = 3

\* log positions of the requests that failed (a PUT is logged when it starts,
\* its failure shows in its future)
FailedRequests ==
    {k \in 1..Len(log) :
        /\ log[k].op \in {"create", "report", "status", "asset"}
        /\ log[k].resp = "error"}

\* C18: no request is repeated: at most one session creation, one PUT per
\* chunk index, one report per batch, one status GET and one asset GET; after
\* a failed request no further request is made and upload_file ends with an
\* error, and after a failed PUT the batch is neither reported nor followed by
\* another batch and upload_file ends with an error.
C18_NoRetry ==
    /\ \A op \in {"create", "status", "asset"} : Cardinality(OpPositions(op)) <= 1
    /\ \A j, k \in OpPositions("put") : log[j].arg = log[k].arg => j = k
    /\ \A j, k \in ReportPositions : log[j].arg = log[k].arg => j = k
    /\ \A k \in FailedRequests :
          /\ k = Len(log)
          /\ pc \in {"cleanup", "done"}
          /\ result.kind = "error"
    /\ PutFailed =>
          /\ pc \in {"submit", "collect", "pool_exit", "cleanup", "done"}
          /\ pc \in {"cleanup", "done"} => result.kind = "error"
          /\ \A k \in ReportPositions : log[k].arg # batch_start

\* C18 witness: the report of the second batch failed after the first batch
\* went through; upload_file has ended with the error.
C18_Witness ==
    /\ pc = "done"
    /\ NumReports = 2
    /\ FailedRequests = {Len(log)}
    /\ log[Len(log)].op = "report"
    /\ result = [kind |-> "error", val |-> "HTTPError"]

\* C19: upload_file ends only through the finally clause, the finally clause
\* leaves the outcome (the returned url or the raised error) as it found it,
\* whether or not a removal failed, and an ended call has an outcome.
C19_CleanupKeepsOutcome ==
    /\ [][/\ pc' = "done" => pc \in {"cleanup", "done"}
          /\ pc = "cleanup" => result' = result /\ pc' = "done"
          /\ pc = "done" => result' = result]_vars
    /\ [](pc \in {"cleanup", "done"} => result.kind \in {"url", "error"})

\* C19 witness: a chunk file could not be removed, and upload_file returned
\* the asset url all the same.
C19_Witness ==
    /\ pc = "done"
    /\ DOMAIN disk # {}
    /\ chunk_dir
    /\ result = [kind |-> "url", val |-> AssetUrl]

\* C20: when the source path is missing or is a directory, upload_file fails
\* with a file-not-found error (unless a request failed first), never creates
\* the scratch directory and starts no chunk upload.
C20_BadPathFails ==
    cfg.kind \in {"missing", "dir"} =>
        /\ ~chunk_dir
        /\ OpPositions("put") = {}
        /\ pc \in {"stat", "create", "split", "cleanup", "done"}
        /\ (pc \in {"cleanup", "done"} /\ FailedRequests = {}) =>
              result = [kind |-> "error", val |-> "FileNotFoundError"]

\* the session-creation request was made and failed
CreateFailed == \E k \in OpPositions("create") : log[k].resp = "error"

\* C21: when the session-creation request fails it is the only request of the
\* call: upload_file ends with that error, nothing is split (no scratch
\* directory, no chunk file) and no refill, PUT, report, status or asset
\* request follows.
C21_CreateFailureAborts ==
    CreateFailed =>
        /\ Len(log) = 1
        /\ ~upload_session.created
        /\ ~chunk_dir /\ DOMAIN disk = {} /\ ~chunk_files.bound
        /\ DOMAIN fut = {}
        /\ pc \in {"cleanup", "done"}
        /\ result = [kind |-> "error", val |-> "HTTPError"]

\* C21 witness: the call has ended after a failed session creation.
C21_Witness ==
    /\ CreateFailed
    /\ pc = "done"
    /\ cfg.kind = "file" /\ cfg.size > 0
    /\ result = [kind |-> "error", val |-> "HTTPError"]

(* ---------------- the command-line driver ---------------- *)
\* main() around upload_file: what the process prints on each stream and its
\* exit code, for an outcome of upload_file (a returned url, a raised
\* Exception, or a KeyboardInterrupt). print() writes to standard output.
main(outcome) ==
    IF outcome.kind = "url"
    THEN [exit_code |-> 0,
          stdout |-> <<"Upload completed", outcome.val>>,
          stderr |-> <<>>]
    ELSE IF outcome.kind = "interrupt"
    THEN [exit_code |-> 1,
          stdout |-> <<"Upload cancelled by user">>,
          stderr |-> <<>>]
    ELSE [exit_code |-> 1,
          stdout |-> <<outcome.val>>,
          stderr |-> <<>>]

\* C22: the driver exits with 0 exactly when upload_file returned a url,
\* which it prints; on an error it exits with 1 and the error message is
\* written to standard error.
C22_DriverExit ==
    pc = "done" =>
        LET m == main(result)
        IN  /\ m.exit_code = 0 <=> result.kind = "url"
            /\ result.kind = "url" => result.val \in Range(m.stdout)
            /\ result.kind = "error" =>
                  /\ m.exit_code = 1
                  /\ result.val \in Range(m.stderr)

Credential == <<"x-api-key", ApiKey>>

\* C23 as stated: every request of the upload flow, the chunk PUT included,
\* carries the API credential header.
C23_CredentialOnEveryRequest ==
    \A k \in 1..Len(log) : Credential \in log[k].headers

\* C23 amended: every request to the service's API (session creation, URL
\* refill, batch report, status GET, asset GET) carries the API credential
\* header; the chunk PUT to the presigned URL carries only its Content-Type
\* and no credential.
C23_CredentialOnApiRequests ==
    \A k \in 1..Len(log) :
        IF log[k].op = "put"
        THEN log[k].headers = {<<"Content-Type", "application/octet-stream">>}
        ELSE Credential \in log[k].headers

\* C23 witness: a run that made all six kinds of request.
C23_Witness ==
    /\ pc = "done"
    /\ {log[k].op : k \in 1..Len(log)} =
          {"create", "refill", "put", "report", "status", "asset"}

\* C24: once a chunk PUT of the batch has failed and the controlling thread
\* has seen the failure and re-raised it, no further chunk PUT is started.
C24_NoStartAfterFailure ==
    [][(PutFailed /\ pending) => OpPositions("put")' = OpPositions("put")]_vars

\* C25: uploads of different batches never overlap: while the controlling
\* thread is between pools (choosing the next batch, refilling its URLs,
\* reporting, polling) no chunk upload is queued or running, and an upload
\* in flight always belongs to the current batch.
C25_BatchesDoNotOverlap ==
    /\ pc \in {"loop", "refill", "report", "status", "asset"} => InFlight = {}
    /\ InFlight \subseteq batch_indices
    /\ \A k \in ReportPositions :
          \A i \in Reported(k) : i \in DOMAIN fut => fut[i].state = "returned"

\* C25 witness: the second batch is being prepared after the first one was
\* uploaded by several workers and reported; nothing is in flight.
C25_Witness ==
    /\ pc = "refill"
    /\ batch_start > 0
    /\ NumReports = 1
    /\ Cardinality(DOMAIN fut) >= 2
    /\ InFlight = {}

\* the step is a refill that was answered with a page of URLs
RefillAnswered ==
    /\ Len(log') = Len(log) + 1
    /\ log'[Len(log')].op = "refill"
    /\ log'[Len(log')].resp = "ok"

\* C26: a refill stores the returned url for every returned index, also for
\* an index already cached, and leaves every other entry as it was; no step
\* ever removes an entry from the cache, and only refills change it once it
\* is built.
C26_RefillMerge ==
    [][/\ DOMAIN current_urls \subseteq DOMAIN current_urls'
       /\ RefillAnswered =>
             LET returned == PageResponse(log'[Len(log')].arg, DefaultLimit, NumRefills + 1)
             IN  /\ \A u \in Range(returned) :
                       /\ u.ci \in DOMAIN current_urls'
                       /\ current_urls'[u.ci] = u
                 /\ \A i \in DOMAIN current_urls' \ {u.ci : u \in Range(returned)} :
                       /\ i \in DOMAIN current_urls
                       /\ current_urls'[i] = current_urls[i]
       /\ (~RefillAnswered /\ pc # "split") => current_urls' = current_urls]_vars

\* C26 witness: the cache holds URLs of the session response untouched next
\* to an entry that a second refill has overwritten.
C26_Witness ==
    /\ \E i \in DOMAIN current_urls : current_urls[i].gen = 0
    /\ \E j \in DOMAIN current_urls : current_urls[j].gen = 2

\* the step sends a request for a page of presigned URLs
RefillSent ==
    /\ Len(log') = Len(log) + 1
    /\ log'[Len(log')].op = "refill"

\* C27: the refill for a missing index i asks for page ((i-1) div 10) + 1
\* with limit 10, the page size of the page computation; index i lies in the
\* index range of that page, and an answered refill leaves the url of i in
\* the cache.
C27_RefillPage ==
    [][RefillSent =>
          LET i == Head(missing_urls)
              page == log'[Len(log')].arg
          IN  /\ page = ((i - 1) \div PageSize) + 1
              /\ DefaultLimit = PageSize
              /\ i \in ((page - 1) * DefaultLimit + 1)..(page * DefaultLimit)
              /\ log'[Len(log')].resp = "ok" =>
                    /\ i \in DOMAIN current_urls'
                    /\ current_urls'[i].ci = i]_vars

\* C27 witness: index 11 was missing, page 2 was requested and answered, and
\* the url of chunk 11 is cached.
C27_Witness ==
    /\ \E k \in OpPositions("refill") : log[k].arg = 2 /\ log[k].resp = "ok"
    /\ (PageSize + 1) \in DOMAIN current_urls
    /\ pc = "refill"

\* the step is a report that the service answered
ReportAnswered ==
    /\ Len(log') = Len(log) + 1
    /\ log'[Len(log')].op = "report"
    /\ log'[Len(log')].resp # "error"

\* C28: what the client does after an answered report is determined by the
\* state it was in and by the url field of the answer alone: with a url it
\* returns it, without one it goes on to the next batch, whatever
\* processed_chunks, duplicate_chunks and total_completed say. Two runs whose
\* report answers differ only in those counts therefore make the same
\* requests and end alike.
C28_DuplicatesIgnored ==
    [][ReportAnswered =>
          LET url == log'[Len(log')].resp
          IN  /\ log'[Len(log')].arg = batch_start
              /\ log'[Len(log')].proofs = Range(completed_chunks)
              /\ IF Truthy(url)
                 THEN /\ pc' = "cleanup"
                      /\ result' = [kind |-> "url", val |-> url]
                      /\ batch_start' = batch_start
                 ELSE /\ pc' = "loop"
                      /\ result' = result
                      /\ batch_start' = batch_start + cfg.batch_size
              /\ UNCHANGED <<cfg, chunk_dir, disk, upload_session, chunk_files,
                             current_urls, missing_urls, fut, collected,
                             completed_chunks, pending>>]_vars

\* C28 witness: a report was answered with all its chunks counted as
\* duplicates and no url, and the run went on to the status poll like any
\* other.
C28_Witness ==
    /\ pc = "status"
    /\ \E k \in ReportPositions :
          /\ log[k].dup > 0
          /\ log[k].dup = log[k].n
          /\ log[k].resp = NoneVal

\* the bytes of chunk i of the source file
ChunkBytes(i) ==
    Read(FileBytes(cfg.size), (i - 1) * upload_session.chunk_size,
         upload_session.chunk_size)

\* a proof entry is the one of chunk i: the stripped ETag of the PUT of chunk
\* file i to the url of index i (empty when the response had no ETag header),
\* proof_type 'etag' and the byte length of chunk i
PairedEntry(e) ==
    LET i == e.chunk_index
    IN  /\ e.proof \in {<<ToString(i), ToString(i)>>, <<>>}
        /\ e.proof_type = "etag"
        /\ e.chunk_size = Len(ChunkBytes(i))

\* C29: whatever the order in which the uploads of a batch complete, the
\* proof entry with chunk_index i is built from the response to the PUT of
\* chunk file i to the url cached for index i: it carries that response's
\* ETag, proof_type 'etag' and the byte length of chunk i, and there is one
\* entry per index.
C29_ProofPairing ==
    /\ pc \in {"collect", "pool_exit", "report"} =>
          \A k \in 1..Len(completed_chunks) :
              LET e == completed_chunks[k]
                  i == e.chunk_index
              IN  /\ i \in batch_indices
                  /\ fut[i].state = "returned"
                  /\ fut[i].url = current_urls[i]
                  /\ fut[i].chunk_file = chunk_files.files[i]
                  /\ disk[fut[i].chunk_file] = ChunkBytes(i)
                  /\ e.proof = (IF fut[i].header.present
                                THEN Tag(current_urls[i], chunk_files.files[i])
                                ELSE <<>>)
                  /\ PairedEntry(e)
                  /\ \A j \in 1..Len(completed_chunks) :
                        completed_chunks[j].chunk_index = i => j = k
    /\ \A k \in ReportPositions : \A e \in log[k].proofs : PairedEntry(e)

\* C29 witness: chunk 2 completed before chunk 1, both answered with an
\* ETag, and the batch is about to be reported with each proof under its
\* own index.
C29_Witness ==
    /\ pc = "report"
    /\ Len(completed_chunks) >= 2
    /\ completed_chunks[1].chunk_index = 2
    /\ completed_chunks[1].proof = <<"2", "2">>
    /\ completed_chunks[2].chunk_index = 1
    /\ completed_chunks[2].proof = <<"1", "1">>
    /\ completed_chunks[1].chunk_size # completed_chunks[2].chunk_size

\* C30: the finally clause runs cleanup_chunks only when no upload is queued
\* or running, on every exit path; so a chunk file is never removed under an
\* upload that still has to read it.
C30_CleanupAfterDrain ==
    /\ [](pc \in {"cleanup", "done"} => InFlight = {})
    /\ [][(\E p \in DOMAIN disk : p \notin DOMAIN disk') =>
             (pc = "cleanup" /\ InFlight = {})]_vars

\* C30 witness: a chunk failed in the middle of a batch; cleanup is about to
\* run after the other uploads of the batch, not yet collected, have finished.
C30_Witness ==
    /\ pc = "cleanup"
    /\ PutFailed
    /\ result = [kind |-> "error", val |-> "chunk upload failed"]
    /\ DOMAIN disk # {}
    /\ \E i \in DOMAIN fut : i \notin collected /\ fut[i].state = "returned"

\* C31: whenever upload_file returns, the value is a non-empty url that the
\* service supplied in a report answer or, after the status 'completed', in
\* the asset answer.
C31_ReturnsRealUrl ==
    result.kind = "url" =>
        /\ Truthy(result.val)
        /\ \/ CarriesUrl(log[Len(log)]) /\ log[Len(log)].resp = result.val
           \/ /\ log[Len(log)].op = "asset"
              /\ log[Len(log)].resp = result.val
              /\ "completed" \in StatusAnswer

\* C32: whatever the batch_size, the final status is asked for only after a
\* PUT of every chunk index 1..T was started and a proof of every index was
\* reported.
C32_StatusAfterAllChunks ==
    (pc \in {"status", "asset"} \/ OpPositions("status") # {}) =>
        /\ {log[k].arg : k \in OpPositions("put")} = 1..total_chunks
        /\ UNION {Reported(k) : k \in ReportPositions} = 1..total_chunks

(* ---------------- termination ---------------- *)
\* the calls termination is explored on: files of up to MaxLiveSize one-byte
\* chunks, every batch_size from 0 to one more than that, no URLs in the
\* session response
LiveConfigs ==
    { [kind |-> "file", size |-> n, chunk_size |-> 1, batch_size |-> b,
       first_page |-> 0] : n \in 1..MaxLiveSize, b \in 0..(MaxLiveSize + 1) }

LiveInit == Init /\ cfg \in LiveConfigs

\* the call keeps running: the controlling thread and the pool's workers are
\* scheduled, and every request that was sent is answered (with a response
\* or an error)
SpecLive == LiveInit /\ [][Next]_vars /\ WF_vars(Next)

\* C33: for a regular file and a positive batch_size the call never deals
\* with more than ceil(T/B) batches, and it ends, through the finally clause,
\* with a url or an error.
C33_Terminates ==
    /\ []((cfg.batch_size > 0 /\ chunk_files.bound) =>
             /\ NumReports <= Ceil(total_chunks, cfg.batch_size)
             /\ batch_start <= cfg.batch_size * Ceil(total_chunks, cfg.batch_size)
             /\ \A k \in ReportPositions : log[k].arg < total_chunks)
    /\ (cfg.kind = "file" /\ cfg.batch_size > 0) =>
          <>(pc = "done" /\ result.kind \in {"url", "error"})

\* C33 witness: a call that went through all ceil(T/B) > 1 batches has ended.
C33_Witness ==
    /\ pc = "done"
    /\ cfg.batch_size > 0
    /\ NumReports >= 2
    /\ NumReports = Ceil(total_chunks, cfg.batch_size)
    /\ result.kind = "url"

(* ---------------- two invocations side by side ---------------- *)
\* source file paths as pathlib sees them: parent directory, stem and suffix
\* of the file name (the path is parent/stem+suffix)
Paths ==
    { [parent |-> d, stem |-> s, suffix |-> x] :
        d \in {"/a", "/b"}, s \in {"video", "clip"}, x \in {"", ".mp4", ".mov"} }

\* chunk_dir = file_path.parent / f"{file_path.stem}_chunks"
ChunkDirOf(file_path) == <<file_path.parent, file_path.stem, "_chunks">>

\* chunk_file = chunk_dir / f"chunk_{chunk_num:04d}", for the one chunk of
\* each of the two files
ChunkFileOf(file_path) == <<ChunkDirOf(file_path), "chunk_0001">>

Invocations == {1, 2}

\* two upload_file calls on different source paths, both about to split;
\* pc, chunk_files and result are kept per invocation, disk and chunk_dir
\* are the one file system they share: disk maps a chunk file to the
\* invocation whose bytes it holds
PairInit ==
    /\ cfg \in {c \in [Invocations -> Paths] : c[1] # c[2]}
    /\ pc = [i \in Invocations |-> "split"]
    /\ chunk_dir = {}
    /\ disk = <<>>
    /\ chunk_files = [i \in Invocations |-> <<>>]
    /\ result = [i \in Invocations |-> NoResult]
    /\ log = <<>>
    /\ upload_session = [created |-> TRUE, chunk_size |-> 1, total_chunks |-> 1,
                         upload_urls |-> <<>>]
    /\ current_urls = <<>>
    /\ batch_start = 0
    /\ missing_urls = <<>>
    /\ fut = <<>>
    /\ collected = {}
    /\ completed_chunks = <<>>
    /\ pending = FALSE
    /\ faults = 0

\* split_file of invocation i: mkdir(exist_ok=True), then the chunk file is
\* opened with 'wb' and written, replacing whatever it held
PairSplit(i) ==
    /\ pc[i] = "split"
    /\ chunk_dir' = chunk_dir \cup {ChunkDirOf(cfg[i])}
    /\ disk' = [f \in DOMAIN disk \cup {ChunkFileOf(cfg[i])} |->
                  IF f = ChunkFileOf(cfg[i]) THEN i ELSE disk[f]]
    /\ chunk_files' = [chunk_files EXCEPT ![i] = <<ChunkFileOf(cfg[i])>>]
    /\ pc' = [pc EXCEPT ![i] = "upload"]
    /\ UNCHANGED <<cfg, result, log, upload_session, current_urls, batch_start,
                   missing_urls, fut, collected, completed_chunks, pending, faults>>

\* upload_chunk_to_s3 of invocation i: the chunk file is opened and its bytes
\* are PUT; a chunk file that is gone raises FileNotFoundError
PairUpload(i) ==
    /\ pc[i] = "upload"
    /\ LET f == chunk_files[i][1]
       IN  IF f \in DOMAIN disk
           THEN /\ log' = Append(log, [inv |-> i, file |-> f, bytes_of |-> disk[f]])
                /\ result' = [result EXCEPT ![i] = [kind |-> "url", val |-> AssetUrl]]
           ELSE /\ log' = log
                /\ result' = [result EXCEPT ![i] =
                                [kind |-> "error", val |-> "FileNotFoundError"]]
    /\ pc' = [pc EXCEPT ![i] = "cleanup"]
    /\ UNCHANGED <<cfg, chunk_dir, disk, chunk_files, upload_session, current_urls,
                   batch_start, missing_urls, fut, collected, completed_chunks,
                   pending, faults>>

\* cleanup_chunks of invocation i: os.remove of its chunk file, rmdir of the
\* directory if it is empty then; OSError is swallowed
PairCleanup(i) ==
    /\ pc[i] = "cleanup"
    /\ LET f == chunk_files[i][1]
       IN  /\ disk' = [g \in DOMAIN disk \ {f} |-> disk[g]]
           /\ chunk_dir' = chunk_dir \ {f[1]}
    /\ pc' = [pc EXCEPT ![i] = "done"]
    /\ UNCHANGED <<cfg, chunk_files, result, log, upload_session, current_urls,
                   batch_start, missing_urls, fut, collected, completed_chunks,
                   pending, faults>>

PairNext ==
    \E i \in Invocations : PairSplit(i) \/ PairUpload(i) \/ PairCleanup(i)

SpecPair == PairInit /\ [][PairNext]_vars

\* C34: of two calls on different source paths, each uploads the bytes of
\* its own file and finds its chunk file when it uploads it: neither call's
\* split or cleanup touches a chunk file the other still has to upload.
C34_OwnScratchDirectory ==
    /\ \A k \in 1..Len(log) : log[k].bytes_of = log[k].inv
    /\ \A i \in Invocations : result[i].kind # "error"

(* ---------------- the Poe bot: twelve_labs_poe_bot.py ---------------- *)
\* The bot's specification keeps, in the module's variables:
\*   cfg     the two requests of one conversation and, per request, the
\*           status of the indexing task it created
\*   disk    the conversation's user-data file as _save_user_data wrote it last
\*   fut     per request, the locals of its coroutine: the user_data dict it
\*           loaded, pending_question, task_id
\*   pc      per request, the position of its coroutine
\*   result  per request, the last text it yielded
\*   log     the calls made to Poe's billing and to the Twelve Labs client
MIN_VIDEO_DURATION == 4

MAX_VIDEO_DURATION == 1200

FREE_VIDEO_DURATION_MINUTES == 1

Requests == {1, 2}

\* the videos: a video is known by its URL, which stands for the hash of
\* its content and for the video_id the service gives it as well
Videos == {"short.mp4", "min.mp4", "minute.mp4", "max.mp4", "long.mp4"}

\* the duration in seconds ffprobe reports for a video: durations around
\* the limits
ffprobe(video) ==
    CASE video = "short.mp4"  -> MIN_VIDEO_DURATION - 1
      [] video = "min.mp4"    -> MIN_VIDEO_DURATION
      [] video = "minute.mp4" -> 60 * FREE_VIDEO_DURATION_MINUTES
      [] video = "max.mp4"    -> MAX_VIDEO_DURATION
      [] video = "long.mp4"   -> MAX_VIDEO_DURATION + 1

\* the id of the task request r creates, and the request of a task
TaskId(r) == IF r = 1 THEN "task1" ELSE "task2"

TaskIds == {TaskId(r) : r \in Requests}

RequestOf(task_id) == CHOOSE r \in Requests : TaskId(r) = task_id

\* the text that accompanies the video of request r
QuestionOf(r) == IF r = 1 THEN "question1" ELSE "question2"

\* the messages: a video (URL or attachment) with or without accompanying
\* text, or a plain text message
Messages ==
    { [kind |-> "upload", video |-> v, question |-> q] :
        v \in Videos, q \in BOOLEAN }
    \cup { [kind |-> "text", video |-> NoneVal, question |-> FALSE] }

\* _load_user_data's default_data
default_data ==
    [video_id |-> NoneVal, index_id |-> NoneVal, processing_task |-> NoneVal,
     processing_url |-> NoneVal, pending_question |-> NoneVal,
     processed_videos |-> {}]

\* the user data of a conversation in which a one-minute video was
\* processed earlier
EarlierData ==
    [video_id |-> "minute.mp4", index_id |-> "index",
     processing_task |-> NoneVal, processing_url |-> "minute.mp4",
     pending_question |-> NoneVal, processed_videos |-> {"minute.mp4"}]

NoFrame == [user_data |-> default_data, pending_question |-> NoneVal,
            task_id |-> NoneVal]

BotInit ==
    /\ cfg \in { [req |-> m, task |-> [t \in TaskIds |-> "none"]] :
                   m \in { q \in [Requests -> Messages] : q[1].kind = "upload" } }
    /\ disk \in {default_data, EarlierData}
    /\ fut = [r \in Requests |-> NoFrame]
    /\ pc = [r \in Requests |-> "idle"]
    /\ result = [r \in Requests |-> NoResult]
    /\ log = <<>>
    /\ chunk_dir = {}
    /\ chunk_files = <<>>
    /\ upload_session = [created |-> FALSE, chunk_size |-> 1, total_chunks |-> 1,
                         upload_urls |-> <<>>]
    /\ current_urls = <<>>
    /\ batch_start = 0
    /\ missing_urls = <<>>
    /\ collected = {}
    /\ completed_chunks = <<>>
    /\ pending = FALSE
    /\ faults = 0

BotRest ==
    UNCHANGED <<chunk_dir, chunk_files, upload_session, current_urls, batch_start,
                missing_urls, collected, completed_chunks, pending, faults>>

\* one call of request r to Poe's billing or to the Twelve Labs client
Call(r, call, ok, arg) == [req |-> r, call |-> call, ok |-> ok, arg |-> arg]

Yield(r, text) == [result EXCEPT ![r] = [kind |-> "text", val |-> text]]

\* the request's coroutine holds data as its user_data
Holds(r, data) == [fut EXCEPT ![r].user_data = data]

\* get_response up to its first await: user_data is loaded and saved back;
\* a video message saves its accompanying text as the pending question and
\* goes on to create_pegasus_video_task; a text message checks the task
\* being processed, or asks for an upload, or chats with the video, the
\* text being generated before handle_text_generation_costs is called
BotReceive(r) ==
    /\ pc[r] = "idle"
    /\ r = 2 => pc[1] # "idle"
    /\ LET req == cfg.req[r]
           user_data == disk
       IN  IF req.kind = "upload"
           THEN LET data == IF req.question
                            THEN [user_data EXCEPT !.pending_question = QuestionOf(r)]
                            ELSE user_data
                IN  /\ disk' = data
                    /\ fut' = Holds(r, data)
                    /\ pc' = [pc EXCEPT ![r] = "create"]
                    /\ UNCHANGED <<result, log>>
           ELSE IF Truthy(user_data.processing_task)
           THEN IF cfg.task[user_data.processing_task] = "ready"
                THEN LET data ==
                           IF Truthy(user_data.video_id) THEN user_data
                           ELSE [user_data EXCEPT
                                   !.video_id =
                                      cfg.req[RequestOf(
                                         user_data.processing_task)].video,
                                   !.processing_task = NoneVal]
                     IN  /\ disk' = data
                         /\ fut' = Holds(r, data)
                         /\ result' = Yield(r, "PROCESSING_COMPLETE_MESSAGE")
                         /\ pc' = [pc EXCEPT ![r] = "done"]
                         /\ log' = log
                ELSE /\ result' = Yield(r, "STILL_PROCESSING_MESSAGE")
                     /\ fut' = Holds(r, user_data)
                     /\ pc' = [pc EXCEPT ![r] = "wait"]
                     /\ UNCHANGED <<disk, log>>
           ELSE IF user_data.video_id = NoneVal
           THEN /\ result' = Yield(r, "UPLOAD_INSTRUCTIONS_MESSAGE")
                /\ fut' = Holds(r, user_data)
                /\ pc' = [pc EXCEPT ![r] = "done"]
                /\ UNCHANGED <<disk, log>>
           ELSE /\ log' = Append(log, Call(r, "generate", TRUE, "message"))
                /\ fut' = Holds(r, user_data)
                /\ pc' = [pc EXCEPT ![r] = "costs"]
                /\ UNCHANGED <<disk, result>>
    /\ UNCHANGED cfg
    /\ BotRest

\* a faulty variant of DurationValid: the upper limit is not checked
DurationValidNoUpper(duration_seconds) ==
    ~(duration_seconds < MIN_VIDEO_DURATION)

\* neither of the two duration checks returns an error
DurationValid(duration_seconds) ==
    /\ ~(duration_seconds < MIN_VIDEO_DURATION)
    /\ ~(duration_seconds > MAX_VIDEO_DURATION)

\* get_response after create_pegasus_video_task returned an error tuple: the
\* message is shown and the pending question is cleared in freshly loaded
\* user data
ShowError(r, text) ==
    /\ result' = Yield(r, text)
    /\ disk' = [disk EXCEPT !.pending_question = NoneVal]
    /\ fut' = Holds(r, [disk EXCEPT !.pending_question = NoneVal])
    /\ pc' = [pc EXCEPT ![r] = "done"]

\* create_pegasus_video_task up to the cost computation: a video processed
\* before is reused (no task); a new one is downloaded and measured, and is
\* rejected when it is too short or too long
BotCreate(r) ==
    /\ pc[r] = "create"
    /\ LET user_data == disk
           video == cfg.req[r].video
       IN  IF video \in user_data.processed_videos
           THEN LET data == [user_data EXCEPT !.video_id = video,
                                              !.processing_task = NoneVal]
                IN  /\ disk' = data
                    /\ fut' = Holds(r, data)
                    /\ pc' = [pc EXCEPT ![r] = "wait"]
                    /\ result' = result
           ELSE IF ~DurationValid(ffprobe(video))
           THEN ShowError(r, IF ffprobe(video) < MIN_VIDEO_DURATION
                             THEN "VIDEO_TOO_SHORT_MESSAGE"
                             ELSE "VIDEO_TOO_LONG_MESSAGE")
           ELSE /\ pc' = [pc EXCEPT ![r] = "authorize"]
                /\ fut' = Holds(r, user_data)
                /\ UNCHANGED <<disk, result>>
    /\ UNCHANGED <<cfg, log>>
    /\ BotRest

\* create_pegasus_video_task from authorize_cost to the await of
\* upscale_video: InsufficientFundError returns an error tuple; otherwise
\* user data is loaded and the index is created if there is none
BotAuthorize(r) ==
    /\ pc[r] = "authorize"
    /\ \E ok \in BOOLEAN :
         IF ~ok
         THEN /\ log' = Append(log, Call(r, "authorize", FALSE, "video"))
              /\ ShowError(r, "INSUFFICIENT_FUNDS_MESSAGE")
         ELSE LET user_data == disk
                  create == user_data.index_id = NoneVal
                  data == IF create THEN [user_data EXCEPT !.index_id = "index"]
                          ELSE user_data
              IN  /\ log' = Append(log, Call(r, "authorize", TRUE, "video"))
                             \o (IF create
                                 THEN <<Call(r, "index_create", TRUE, "index")>>
                                 ELSE <<>>)
                  /\ disk' = data
                  /\ fut' = Holds(r, data)
                  /\ pc' = [pc EXCEPT ![r] = "task"]
                  /\ result' = result
    /\ UNCHANGED cfg
    /\ BotRest

\* create_pegasus_video_task from task.create to its return, and
\* get_response up to wait_for_processing: the task is created, the user
\* data the coroutine holds is saved with the task, the cost is captured
BotTask(r) ==
    /\ pc[r] = "task"
    /\ LET video == cfg.req[r].video
           data == [fut[r].user_data EXCEPT
                      !.processing_task = TaskId(r),
                      !.processing_url = video,
                      !.processed_videos = @ \cup {video}]
       IN  /\ log' = log \o <<Call(r, "task_create", TRUE, "video"),
                              Call(r, "capture", TRUE, "video")>>
           /\ cfg' = [cfg EXCEPT !.task[TaskId(r)] = "pending"]
           /\ disk' = data
           /\ fut' = Holds(r, data)
           /\ result' = Yield(r, "upload_message")
           /\ pc' = [pc EXCEPT ![r] = "wait"]
    /\ BotRest

\* wait_for_processing, in both places where it finds the video ready: the
\* pending question of the user_data the coroutine holds is cleared there
\* and the whole dict is saved, before authorize_cost is awaited; without a
\* pending question the completion message ends the request. saved tells
\* whether data was written to the file already.
PendingQuestion(r, data, saved) ==
    /\ cfg' = cfg
    /\ log' = log
    /\ IF Truthy(data.pending_question)
       THEN LET cleared == [data EXCEPT !.pending_question = NoneVal]
            IN  /\ disk' = cleared
                /\ fut' = [fut EXCEPT ![r].user_data = cleared,
                                      ![r].pending_question =
                                          data.pending_question]
                /\ pc' = [pc EXCEPT ![r] = "answer"]
                /\ result' = result
       ELSE /\ disk' = IF saved THEN data ELSE disk
            /\ fut' = Holds(r, data)
            /\ result' = Yield(r, "PROCESSING_COMPLETE_MESSAGE")
            /\ pc' = [pc EXCEPT ![r] = "done"]

\* wait_for_processing up to its first await: user_data is loaded once; with
\* no task in it, a reused video's pending question is taken up, otherwise
\* the task is polled
BotWait(r) ==
    /\ pc[r] = "wait"
    /\ LET user_data == disk
       IN  IF ~Truthy(user_data.processing_task)
           THEN IF Truthy(user_data.video_id)
                THEN PendingQuestion(r, user_data, FALSE)
                ELSE /\ result' = Yield(r, "NO_TASK_MESSAGE")
                     /\ fut' = Holds(r, user_data)
                     /\ pc' = [pc EXCEPT ![r] = "done"]
                     /\ UNCHANGED <<cfg, disk, log>>
           ELSE /\ fut' = [fut EXCEPT ![r].user_data = user_data,
                                      ![r].task_id = user_data.processing_task]
                /\ pc' = [pc EXCEPT ![r] = "poll"]
                /\ UNCHANGED <<cfg, disk, log, result>>
    /\ BotRest

\* one round of the polling loop that ends the wait (a round that finds the
\* task still processing sleeps and changes nothing): the timeout saves the
\* user_data held since the start with the task id; a ready task is recorded
\* in it, saved, and the pending question is taken up; a failed task is
\* reported
BotPoll(r) ==
    /\ pc[r] = "poll"
    /\ LET user_data == fut[r].user_data
           task_id == fut[r].task_id
       IN  \/ /\ disk' = [user_data EXCEPT !.processing_task = task_id]
              /\ fut' = Holds(r, [user_data EXCEPT !.processing_task = task_id])
              /\ result' = Yield(r, "timeout")
              /\ pc' = [pc EXCEPT ![r] = "done"]
              /\ UNCHANGED <<cfg, log>>
           \/ /\ cfg.task[task_id] = "ready"
              /\ PendingQuestion(r,
                    [user_data EXCEPT
                       !.video_id = cfg.req[RequestOf(task_id)].video,
                       !.processing_task = NoneVal], TRUE)
           \/ /\ cfg.task[task_id] = "failed"
              /\ result' = Yield(r, "PROCESSING_FAILED_MESSAGE")
              /\ pc' = [pc EXCEPT ![r] = "done"]
              /\ UNCHANGED <<cfg, disk, fut, log>>
    /\ BotRest

\* wait_for_processing answering the pending question: authorize_cost, then
\* generate.text with the question, then capture_cost; InsufficientFundError
\* ends the request with the funds message
BotAnswer(r) ==
    /\ pc[r] = "answer"
    /\ LET question == fut[r].pending_question
       IN  \E ok \in BOOLEAN :
             IF ok
             THEN /\ log' = log \o <<Call(r, "authorize", TRUE, question),
                                     Call(r, "generate", TRUE, question),
                                     Call(r, "capture", TRUE, question)>>
                  /\ result' = Yield(r, "PENDING_QUESTION_RESPONSE")
             ELSE /\ log' = Append(log, Call(r, "authorize", FALSE, question))
                  /\ result' = Yield(r, "INSUFFICIENT_FUNDS_MESSAGE")
    /\ pc' = [pc EXCEPT ![r] = "done"]
    /\ UNCHANGED <<cfg, disk, fut>>
    /\ BotRest

\* handle_text_generation_costs and get_response after it, the text being
\* generated already: nothing is charged for a video shorter than
\* FREE_VIDEO_DURATION_MINUTES; otherwise authorize_cost, then capture_cost;
\* on InsufficientFundError the error is yielded in place of the text
BotCosts(r) ==
    /\ pc[r] = "costs"
    /\ LET user_data == disk
           video_url == user_data.processing_url
       IN  IF Truthy(video_url)
              /\ ffprobe(video_url) < 60 * FREE_VIDEO_DURATION_MINUTES
           THEN /\ log' = log
                /\ result' = Yield(r, "response_text")
           ELSE \E ok \in BOOLEAN :
                  IF ok
                  THEN /\ log' = log \o <<Call(r, "authorize", TRUE, "message"),
                                          Call(r, "capture", TRUE, "message")>>
                       /\ result' = Yield(r, "response_text")
                  ELSE /\ log' = Append(log,
                                    Call(r, "authorize", FALSE, "message"))
                       /\ result' = Yield(r, "INSUFFICIENT_FUNDS_MESSAGE")
    /\ pc' = [pc EXCEPT ![r] = "done"]
    /\ UNCHANGED <<cfg, disk, fut>>
    /\ BotRest

\* the service finishes indexing a task's video, or fails to
BotTaskStatus ==
    /\ \E task_id \in TaskIds, status \in {"ready", "failed"} :
         /\ cfg.task[task_id] = "pending"
         /\ cfg' = [cfg EXCEPT !.task[task_id] = status]
    /\ UNCHANGED <<pc, disk, fut, result, log>>
    /\ BotRest

BotNext ==
    \/ \E r \in Requests :
         \/ BotReceive(r)
         \/ BotCreate(r)
         \/ BotAuthorize(r)
         \/ BotTask(r)
         \/ BotWait(r)
         \/ BotPoll(r)
         \/ BotAnswer(r)
         \/ BotCosts(r)
    \/ BotTaskStatus

SpecBot == BotInit /\ [][BotNext]_vars

\* the positions of the log at which request r made the given call
CallsOf(r, call) ==
    {k \in 1..Len(log) : log[k].req = r /\ log[k].call = call}

\* what an authorization pays for: the cost captured, the task created or
\* the text generated by the same request for the same item (the video, the
\* pending question, the message)
PaidFor(k) ==
    {j \in 1..Len(log) :
        /\ log[j].req = log[k].req
        /\ log[j].arg = log[k].arg
        /\ log[j].call \in {"capture", "task_create", "generate"}}

\* C35: a cost is captured only after the same request's authorization of
\* it succeeded, and when an authorization fails with InsufficientFundError
\* the request captures no cost, creates no task and generates no text for
\* what was to be paid.
C35_AuthorizeBeforeCapture ==
    /\ \A k \in 1..Len(log) :
         log[k].call = "capture" =>
           \E j \in 1..(k - 1) :
              /\ log[j].req = log[k].req
              /\ log[j].arg = log[k].arg
              /\ log[j].call = "authorize"
              /\ log[j].ok
    /\ \A k \in 1..Len(log) :
         (log[k].call = "authorize" /\ ~log[k].ok) =>
           /\ PaidFor(k) = {}
           /\ \A j \in (k + 1)..Len(log) : log[j].req # log[k].req

\* C36: a task is created only for a video of MIN_VIDEO_DURATION to
\* MAX_VIDEO_DURATION seconds; the request that brings a shorter or longer
\* video makes no call at all (no authorization, no capture, no index, no
\* task) and ends with the too-short or too-long message.
C36_TaskOnlyInRange ==
    \A r \in Requests :
       cfg.req[r].kind = "upload" =>
          LET duration_seconds == ffprobe(cfg.req[r].video)
              in_range == /\ MIN_VIDEO_DURATION <= duration_seconds
                          /\ duration_seconds <= MAX_VIDEO_DURATION
          IN  /\ CallsOf(r, "task_create") # {} => in_range
              /\ ~in_range =>
                   /\ \A k \in 1..Len(log) : log[k].req # r
                   /\ pc[r] = "done" =>
                        result[r].val \in {"VIDEO_TOO_SHORT_MESSAGE",
                                           "VIDEO_TOO_LONG_MESSAGE"}

\* C36 witness: a request with too long a video has ended with the message
\* while the other request's video got its task.
C36_Witness ==
    \E r, s \in Requests :
       /\ cfg.req[r].kind = "upload"
       /\ ffprobe(cfg.req[r].video) > MAX_VIDEO_DURATION
       /\ pc[r] = "done"
       /\ result[r].val = "VIDEO_TOO_LONG_MESSAGE"
       /\ CallsOf(s, "task_create") # {}

\* C37: every saved pending question is answered at most once and charged
\* for at most once: the log holds at most one generate call and at most
\* one authorization for it.
C37_PendingAnsweredOnce ==
    \A r \in Requests :
       /\ Cardinality({k \in 1..Len(log) :
             log[k].call = "generate" /\ log[k].arg = QuestionOf(r)}) <= 1
       /\ Cardinality({k \in 1..Len(log) :
             log[k].call = "authorize" /\ log[k].arg = QuestionOf(r)}) <= 1

====
